---------------------------- MODULE Spec2Model ----------------------------
(***************************************************************************)
(* Model of variant_annotator.py: the per-identifier resolution pipeline   *)
(* read_rsids -> query_ensembl_api -> extract_annotations -> write_tsv,    *)
(* sequenced by main.                                                      *)
(*                                                                         *)
(* Text is modelled as a sequence of characters, each character a          *)
(* one-character string ("r", "\t", ...).  The character U+00B2            *)
(* (SUPERSCRIPT TWO) is written "U+00B2".  A Python dict is a function     *)
(* whose DOMAIN is its key set; a JSON value is a tagged record.           *)
(***************************************************************************)
EXTENDS Integers, Sequences, FiniteSets, TLC

VARIABLES
    file,               \* the input file: [readable, lines]
    max_retries,        \* args.max_retries
    additional_fields,  \* args.additional_fields
    pc,                 \* position of main
    rsids,              \* main: rsids
    rsid,               \* main: the identifier being resolved (the call's argument)
    i,                  \* main: loop index (0-based, identifiers done so far)
    annotations,        \* main: annotations
    success_count,      \* main: success_count
    error_count,        \* main: error_count
    attempt,            \* query_ensembl_api: attempt
    log,                \* query_ensembl_api: requests issued and delays taken by the
                        \* call, in order, until main has consumed its result
    api_data,           \* main: api_data, with how the call ended
    report              \* the output file written by write_tsv

vars == <<file, max_retries, additional_fields, pc, rsids, rsid, i, annotations,
          success_count, error_count, attempt, log, api_data, report>>

---------------------------------------------------------------------------
(* Python str helpers *)

\* Characters str.strip() removes (the ones the model's inputs use).
Whitespace == {" ", "\t", "\n", "\r"}

AsciiDigits == {"0", "1", "2", "3", "4", "5", "6", "7", "8", "9"}

\* Characters for which str.isdigit() is true: the decimal digits and the digits
\* "that need special handling, such as the compatibility superscript digits".
DigitChars == AsciiDigits \cup {"U+00B2"}

RECURSIVE lstrip(_)
lstrip(s) ==
    IF s /= <<>> /\ Head(s) \in Whitespace THEN lstrip(Tail(s)) ELSE s

RECURSIVE rstrip(_)
rstrip(s) ==
    IF s /= <<>> /\ s[Len(s)] \in Whitespace
    THEN rstrip(SubSeq(s, 1, Len(s) - 1))
    ELSE s

strip(s) == rstrip(lstrip(s))

startswith(s, prefix) ==
    /\ Len(s) >= Len(prefix)
    /\ SubSeq(s, 1, Len(prefix)) = prefix

isdigit(s) ==
    /\ s /= <<>>
    /\ \A k \in 1..Len(s) : s[k] \in DigitChars

---------------------------------------------------------------------------
(* read_rsids *)

RECURSIVE read_loop(_, _)
read_loop(f, acc) ==
    IF f = <<>> THEN acc
    ELSE LET id == strip(Head(f)) IN
         IF id = <<>> THEN read_loop(Tail(f), acc)
         ELSE IF ~startswith(id, <<"r", "s">>)
                 \/ ~isdigit(SubSeq(id, 3, Len(id)))
              THEN read_loop(Tail(f), [acc EXCEPT !.bad_ids = Append(@, id)])
              ELSE read_loop(Tail(f), [acc EXCEPT !.rsids = Append(@, id)])

\* The list returned for a readable file whose lines are f.
read_rsids(f) == read_loop(f, [rsids |-> <<>>, bad_ids |-> <<>>]).rsids

---------------------------------------------------------------------------
(* Python values: JSON data, dicts, str(), truthiness, sorted(), join() *)

JNone == [t |-> "null"]
JInt(n) == [t |-> "int", n |-> n]
JStr(s) == [t |-> "str", s |-> s]
JList(items) == [t |-> "list", items |-> items]
JObj(o) == [t |-> "dict", o |-> o]

\* The empty dict {} that query_ensembl_api returns on failure.
EmptyDict == JObj(<<>>)

\* bool(v)
truthy(v) ==
    CASE v.t = "null" -> FALSE
      [] v.t = "int"  -> v.n /= 0
      [] v.t = "str"  -> v.s /= <<>>
      [] v.t = "list" -> v.items /= <<>>
      [] v.t = "dict" -> DOMAIN v.o /= {}

\* d.get(k, default)
get(d, k, default) == IF k \in DOMAIN d THEN d[k] ELSE default

DigitOf(n) ==
    CASE n = 0 -> "0" [] n = 1 -> "1" [] n = 2 -> "2" [] n = 3 -> "3"
      [] n = 4 -> "4" [] n = 5 -> "5" [] n = 6 -> "6" [] n = 7 -> "7"
      [] n = 8 -> "8" [] n = 9 -> "9"

RECURSIVE NatToStr(_)
NatToStr(n) ==
    IF n < 10 THEN <<DigitOf(n)>>
    ELSE Append(NatToStr(n \div 10), DigitOf(n % 10))

\* str(v) for the values the model's JSON data holds.
py_str(v) ==
    CASE v.t = "str"  -> v.s
      [] v.t = "int"  -> IF v.n < 0 THEN <<"-">> \o NatToStr(-v.n) ELSE NatToStr(v.n)
      [] v.t = "null" -> <<"N", "o", "n", "e">>

\* ord(c) for the characters of the model's gene symbols and field names.
ord(c) ==
    CASE c = "," -> 44 [] c = "1" -> 49 [] c = "2" -> 50
      [] c = "A" -> 65 [] c = "B" -> 66 [] c = "C" -> 67 [] c = "E" -> 69
      [] c = "G" -> 71 [] c = "N" -> 78 [] c = "_" -> 95
      [] c = "a" -> 97 [] c = "b" -> 98 [] c = "c" -> 99 [] c = "d" -> 100
      [] c = "e" -> 101 [] c = "g" -> 103 [] c = "i" -> 105 [] c = "l" -> 108
      [] c = "m" -> 109 [] c = "n" -> 110 [] c = "o" -> 111 [] c = "p" -> 112
      [] c = "q" -> 113 [] c = "r" -> 114 [] c = "s" -> 115 [] c = "t" -> 116
      [] c = "u" -> 117 [] c = "v" -> 118 [] c = "y" -> 121

\* a < b on str: lexicographic by code point.
str_lt(a, b) ==
    \E k \in 1..Len(b) :
        /\ \A j \in 1..(k - 1) : j <= Len(a) /\ a[j] = b[j]
        /\ \/ k = Len(a) + 1
           \/ k <= Len(a) /\ ord(a[k]) < ord(b[k])

\* sorted(S) of a set of str.
RECURSIVE sorted(_)
sorted(S) ==
    IF S = {} THEN <<>>
    ELSE LET m == CHOOSE x \in S : \A y \in S \ {x} : str_lt(x, y)
         IN <<m>> \o sorted(S \ {m})

\* sep.join(parts)
RECURSIVE join(_, _)
join(sep, parts) ==
    IF parts = <<>> THEN <<>>
    ELSE IF Len(parts) = 1 THEN parts[1]
    ELSE parts[1] \o sep \o join(sep, Tail(parts))

\* int(s) of a str: surrounding whitespace, an optional sign, then decimal digits;
\* anything else raises ValueError (ok = FALSE).
RECURSIVE StrToNat(_)
StrToNat(s) ==
    IF s = <<>> THEN 0
    ELSE 10 * StrToNat(SubSeq(s, 1, Len(s) - 1))
         + (CHOOSE d \in 0..9 : DigitOf(d) = s[Len(s)])

py_int(s) ==
    LET u == strip(s)
        signed == u /= <<>> /\ Head(u) \in {"+", "-"}
        digits == IF signed THEN Tail(u) ELSE u
        ok == digits /= <<>> /\ \A k \in 1..Len(digits) : digits[k] \in AsciiDigits
    IN [ok |-> ok,
        n  |-> IF ~ok THEN 0
               ELSE IF signed /\ Head(u) = "-" THEN -StrToNat(digits)
               ELSE StrToNat(digits)]

---------------------------------------------------------------------------
(* extract_annotations *)

K_rsid == <<"r", "s", "i", "d">>
K_start == <<"s", "t", "a", "r", "t">>
K_end == <<"e", "n", "d">>
K_most_severe_consequence == <<"m", "o", "s", "t", "_", "s", "e", "v", "e", "r", "e", "_",
                               "c", "o", "n", "s", "e", "q", "u", "e", "n", "c", "e">>
K_gene_symbols == <<"g", "e", "n", "e", "_", "s", "y", "m", "b", "o", "l", "s">>
K_gene_symbol == <<"g", "e", "n", "e", "_", "s", "y", "m", "b", "o", "l">>
K_transcript_consequences == <<"t", "r", "a", "n", "s", "c", "r", "i", "p", "t", "_",
                               "c", "o", "n", "s", "e", "q", "u", "e", "n", "c", "e", "s">>

Range(seq) == {seq[k] : k \in 1..Len(seq)}

\* The gene symbols collected from the transcript consequences (lines 183-187).
consequence_gene_symbols(variant) ==
    LET tcs == get(variant, K_transcript_consequences, JList(<<>>)).items
        found == {get(tcs[k].o, K_gene_symbol, JNone) : k \in 1..Len(tcs)}
    IN {g.s : g \in {x \in found : truthy(x)}}

\* Mutant of gene_symbols_of: no fallback to the variant's own gene_symbol.
gene_symbols_no_fallback(variant) == consequence_gene_symbols(variant)

\* The set gene_symbols after lines 183-191.
gene_symbols_of(variant) ==
    LET from_tc == consequence_gene_symbols(variant)
        own == get(variant, K_gene_symbol, JNone)
    IN IF from_tc = {} /\ truthy(own) THEN {own.s} ELSE from_tc

\* Lines 198-208: whether an additional field is found, and the value it gets.
extra_found(variant, field) ==
    LET tcs == get(variant, K_transcript_consequences, JList(<<>>))
    IN \/ field \in DOMAIN variant
       \/ /\ truthy(tcs)
          /\ \E k \in 1..Len(tcs.items) : field \in DOMAIN tcs.items[k].o

extra_value(variant, field) ==
    IF field \in DOMAIN variant THEN py_str(variant[field])
    ELSE LET tcs == variant[K_transcript_consequences].items
             first == CHOOSE k \in 1..Len(tcs) :
                          /\ field \in DOMAIN tcs[k].o
                          /\ \A j \in 1..(k - 1) : field \notin DOMAIN tcs[j].o
         IN py_str(tcs[first].o[field])

StandardKeys == {K_start, K_end, K_most_severe_consequence, K_gene_symbols}

\* The annotation dict: key -> str.  most_severe_consequence is stored without
\* str(); the model's JSON data holds a str there.
extract_annotations(api_response, fields) ==
    LET keys == StandardKeys \cup Range(fields)
        defaults == [k \in keys |-> <<>>]
    IN IF ~truthy(api_response) \/ api_response.t /= "list" THEN defaults
       ELSE LET variant == api_response.items[1].o
                standard(k) ==
                    CASE k = K_start -> py_str(get(variant, K_start, JStr(<<>>)))
                      [] k = K_end -> py_str(get(variant, K_end, JStr(<<>>)))
                      [] k = K_most_severe_consequence ->
                             get(variant, K_most_severe_consequence, JStr(<<>>)).s
                      [] k = K_gene_symbols ->
                             join(<<",">>, sorted(gene_symbols_of(variant)))
                      [] OTHER -> <<>>
            IN [k \in keys |->
                   IF k \in Range(fields) /\ extra_found(variant, k)
                   THEN extra_value(variant, k)
                   ELSE standard(k)]

---------------------------------------------------------------------------
(* write_tsv: csv.DictWriter(f, fieldnames, delimiter='\t') on a file opened *)
(* with newline=''                                                          *)

Delimiter == "\t"
QuoteChar == "\""
LineTerminator == <<"\r", "\n">>

\* csv.writer, QUOTE_MINIMAL with doublequote: one field of a row.
csv_field(s, only_field) ==
    LET special == {Delimiter, QuoteChar} \cup Range(LineTerminator)
        quoted == (\E k \in 1..Len(s) : s[k] \in special) \/ (s = <<>> /\ only_field)
        doubled[k \in 0..Len(s)] ==
            IF k = 0 THEN <<>>
            ELSE doubled[k - 1] \o (IF s[k] = QuoteChar THEN <<QuoteChar, QuoteChar>>
                                    ELSE <<s[k]>>)
    IN IF quoted THEN <<QuoteChar>> \o doubled[Len(s)] \o <<QuoteChar>> ELSE s

\* csv.writer.writerow(values)
csv_writerow(values) ==
    join(<<Delimiter>>,
         [k \in 1..Len(values) |-> csv_field(values[k], Len(values) = 1)])
    \o LineTerminator

\* Lines 224-231.
fieldnames_of(anns) ==
    LET all_fields == {K_rsid} \cup UNION {DOMAIN anns[k] : k \in 1..Len(anns)}
        standard_fields == <<K_rsid, K_start, K_end, K_most_severe_consequence,
                             K_gene_symbols>>
        extra_fields == sorted(all_fields \ Range(standard_fields))
    IN standard_fields \o extra_fields

\* Line 239: row = {"rsid": rsid, **annotation}
row_of(id, annotation) ==
    [k \in {K_rsid} \cup DOMAIN annotation |->
        IF k \in DOMAIN annotation THEN annotation[k] ELSE id]

Min(a, b) == IF a < b THEN a ELSE b

\* The text of the output file after a write_tsv that does not fail.
write_tsv(anns, ids) ==
    LET fieldnames == fieldnames_of(anns)
        line(k) ==
            LET row == row_of(ids[k], anns[k])
            IN csv_writerow([c \in 1..Len(fieldnames) |-> get(row, fieldnames[c], <<>>)])
        body[k \in 0..Min(Len(ids), Len(anns))] ==
            IF k = 0 THEN <<>> ELSE body[k - 1] \o line(k)
    IN csv_writerow(fieldnames) \o body[Min(Len(ids), Len(anns))]

---------------------------------------------------------------------------
(* Reading the report back: csv.DictReader(f, delimiter='\t') on the file    *)
(* opened with newline='' (the csv module's parser, state by state).        *)

EOL == "EOL"   \* the end-of-line mark the reader feeds after each line

save_field(ps) == [ps EXCEPT !.fields = Append(@, ps.field), !.field = <<>>]

add_char(ps, c) == [ps EXCEPT !.field = Append(@, c)]

after_newline(ps, c) ==
    [ps EXCEPT !.st = IF c = EOL THEN "START_RECORD" ELSE "EAT_CRNL"]

start_field(ps, c) ==
    IF c \in {"\n", "\r", EOL} THEN after_newline(save_field(ps), c)
    ELSE IF c = QuoteChar THEN [ps EXCEPT !.st = "IN_QUOTED_FIELD"]
    ELSE IF c = Delimiter THEN [save_field(ps) EXCEPT !.st = "START_FIELD"]
    ELSE [add_char(ps, c) EXCEPT !.st = "IN_FIELD"]

parse_process_char(ps, c) ==
    CASE ps.st = "START_RECORD" ->
            IF c = EOL THEN ps
            ELSE IF c \in {"\n", "\r"} THEN [ps EXCEPT !.st = "EAT_CRNL"]
            ELSE start_field(ps, c)
      [] ps.st = "START_FIELD" -> start_field(ps, c)
      [] ps.st = "IN_FIELD" ->
            IF c \in {"\n", "\r", EOL} THEN after_newline(save_field(ps), c)
            ELSE IF c = Delimiter THEN [save_field(ps) EXCEPT !.st = "START_FIELD"]
            ELSE add_char(ps, c)
      [] ps.st = "IN_QUOTED_FIELD" ->
            IF c = EOL THEN ps
            ELSE IF c = QuoteChar THEN [ps EXCEPT !.st = "QUOTE_IN_QUOTED_FIELD"]
            ELSE add_char(ps, c)
      [] ps.st = "QUOTE_IN_QUOTED_FIELD" ->
            IF c = QuoteChar THEN [add_char(ps, c) EXCEPT !.st = "IN_QUOTED_FIELD"]
            ELSE IF c = Delimiter THEN [save_field(ps) EXCEPT !.st = "START_FIELD"]
            ELSE IF c \in {"\n", "\r", EOL} THEN after_newline(save_field(ps), c)
            ELSE [add_char(ps, c) EXCEPT !.st = "IN_FIELD"]
      [] ps.st = "EAT_CRNL" ->
            IF c \in {"\n", "\r"} THEN ps
            ELSE IF c = EOL THEN [ps EXCEPT !.st = "START_RECORD"]
            ELSE [ps EXCEPT !.st = "ERROR"]
      [] OTHER -> ps

\* A line of the file has been fed: a record is complete when the parser is back
\* at START_RECORD.
end_of_line(ps) ==
    LET q == parse_process_char(ps, EOL)
    IN IF q.st = "START_RECORD"
       THEN [q EXCEPT !.rows = Append(@, q.fields), !.fields = <<>>]
       ELSE q

\* The parser after the characters text[lo..hi]; lines end at "\n", "\r\n" or "\r",
\* and the end-of-line mark follows each line.  (Halving keeps the evaluation shallow.)
RECURSIVE csv_feed(_, _, _, _)
csv_feed(text, lo, hi, ps) ==
    IF lo > hi THEN ps
    ELSE IF lo = hi
    THEN LET c == text[lo]
             q == parse_process_char(ps, c)
             line_ends == \/ c = "\n"
                          \/ c = "\r" /\ (lo = Len(text) \/ text[lo + 1] /= "\n")
         IN IF line_ends THEN end_of_line(q) ELSE q
    ELSE LET mid == (lo + hi) \div 2
             left == csv_feed(text, lo, mid, ps)
         IN IF left.st = "ERROR" THEN left ELSE csv_feed(text, mid + 1, hi, left)

\* The rows csv.reader yields for the text.
csv_reader(text) ==
    LET ps == csv_feed(text, 1, Len(text), [st |-> "START_RECORD", field |-> <<>>,
                                            fields |-> <<>>, rows |-> <<>>])
        last == IF text /= <<>> /\ text[Len(text)] \notin {"\n", "\r"}
                THEN end_of_line(ps) ELSE ps
    IN IF last.field /= <<>> \/ last.st = "IN_QUOTED_FIELD"
       THEN Append(last.rows, save_field(last).fields)
       ELSE last.rows

\* csv.DictReader: the first non-empty row names the columns; each later non-empty
\* row becomes a dict (columns a short row lacks are left out).
DictReader(text) ==
    LET rows == SelectSeq(csv_reader(text), LAMBDA r : r /= <<>>)
    IN IF rows = <<>> THEN <<>>
       ELSE LET names == rows[1]
            IN [n \in 1..(Len(rows) - 1) |->
                   [key \in {names[c] : c \in 1..Min(Len(names), Len(rows[n + 1]))} |->
                       LET c == CHOOSE c \in 1..Len(names) :
                                    /\ names[c] = key
                                    /\ \A d \in (c + 1)..Len(names) : names[d] /= key
                       IN rows[n + 1][c]]]

---------------------------------------------------------------------------
(* query_ensembl_api: one iteration of the retry loop *)

retry_delay == 2

\* What requests.get produced: a response, or a RequestException (raised).
Response(status, headers, body) ==
    [raised |-> FALSE, status |-> status, headers |-> headers, body |-> body]

NoBody == [parseable |-> FALSE, json |-> JNone]

TransportFailure ==
    [raised |-> TRUE, status |-> 0, headers |-> <<>>, body |-> NoBody]

Continue(delay) == [k |-> "continue", delay |-> delay, value |-> JNone]
Return(value) == [k |-> "return", delay |-> 0, value |-> value]
Raise == [k |-> "raise", delay |-> 0, value |-> JNone]

\* Mutant of in_range: one iteration too many.
in_range_one_more(a, m) == a <= m

\* Line 105: for attempt in range(max_retries)
in_range(a, m) == a < m

\* attempt < max_retries - 1 (lines 112, 126, 138)
may_retry(a, m) == a < m - 1

\* Mutant of on_client_error: a 400 or a 404 is retried like a server error.
on_client_error_retries(a, m) ==
    IF may_retry(a, m) THEN Continue(retry_delay) ELSE Return(EmptyDict)

\* Lines 118-123: a 400 or a 404 returns {} at once.
on_client_error(a, m) == Return(EmptyDict)

\* Line 113: int(response.headers.get('Retry-After', retry_delay))
retry_after_of(resp) ==
    IF "Retry-After" \in DOMAIN resp.headers
    THEN py_int(resp.headers["Retry-After"])
    ELSE [ok |-> TRUE, n |-> retry_delay]

\* Mutant of on_request_exception: gives up at the first failure.
on_request_exception_gives_up(a, m) == Return(EmptyDict)

\* Lines 136-142: the handler of requests.exceptions.RequestException.
on_request_exception(a, m) ==
    IF may_retry(a, m) THEN Continue(retry_delay) ELSE Return(EmptyDict)

\* Lines 106-142 for the response resp of attempt a (0-based) of m.  A body that
\* is not JSON makes response.json() raise requests.exceptions.JSONDecodeError, a
\* RequestException (requests 2.27 and later).  int() of a Retry-After that is no
\* integer, and time.sleep() of a negative one, raise ValueError, which no handler
\* of the function catches.
one_attempt(resp, a, m) ==
    IF resp.raised THEN on_request_exception(a, m)
    ELSE IF resp.status = 429 /\ may_retry(a, m)
    THEN LET retry_after == retry_after_of(resp)
         IN IF retry_after.ok /\ retry_after.n >= 0
            THEN Continue(retry_after.n)
            ELSE Raise
    ELSE IF resp.status = 400 THEN on_client_error(a, m)
    ELSE IF resp.status = 404 THEN on_client_error(a, m)
    ELSE IF resp.status >= 500
    THEN IF may_retry(a, m) THEN Continue(retry_delay) ELSE Return(EmptyDict)
    ELSE IF resp.status >= 400 THEN on_request_exception(a, m)  \* raise_for_status()
    ELSE IF resp.body.parseable THEN Return(resp.body.json)
    ELSE on_request_exception(a, m)

\* Line 96: the URL is built from the species and the identifier.
Url(species, id) == [species |-> species, id |-> id]

RequestEvent(url, resp) == [e |-> "request", url |-> url, resp |-> resp]
SleepEvent(delay) == [e |-> "sleep", delay |-> delay]

---------------------------------------------------------------------------
(* Inputs *)

MaxRetriesBound == 3    \* max_retries ranges over 0..MaxRetriesBound
MaxIds == 2             \* lines of the input file of a pipeline run
MaxLines == 3           \* lines of the input file when read_rsids is checked alone
MaxConsequences == 3    \* transcript consequences of a variant record
MaxRows == 2            \* rows handed to write_tsv when it is checked alone

RECURSIVE SeqsUpTo(_, _)
SeqsUpTo(S, n) ==
    IF n = 0 THEN {<<>>}
    ELSE LET shorter == SeqsUpTo(S, n - 1)
         IN shorter \cup {Append(q, x) : q \in {r \in shorter : Len(r) = n - 1}, x \in S}

K_id == <<"i", "d">>
K_biotype == <<"b", "i", "o", "t", "y", "p", "e">>

\* Raw lines as iteration over the file yields them.
PipelineLines == {<<"r", "s", "1", "\n">>, <<"r", "s", "2", "2", "\n">>, <<"x", "\n">>}

ReadLines ==
    PipelineLines \cup
    { <<"r", "s", "1">>,                   \* last line, no newline
      <<" ", "r", "s", "7", "\t", "\n">>,  \* surrounding whitespace
      <<"\n">>, <<" ", "\n">>,             \* blank
      <<"r", "s", "\n">>,                  \* prefix only
      <<"r", "s", "1", "a", "\n">>,
      <<"r", "s", " ", "1", "\n">>,
      <<"R", "S", "1", "\n">>,
      <<"1", "2", "\n">>,
      <<"r", "s", "U+00B2", "\n">> }       \* rs followed by SUPERSCRIPT TWO

Unreadable == [readable |-> FALSE, lines |-> <<>>]

FilesOf(lines, n) == {[readable |-> TRUE, lines |-> f] : f \in SeqsUpTo(lines, n)}

Consequences ==
    { JObj(<<>>),
      JObj(K_gene_symbol :> JStr(<<>>)),
      JObj(K_gene_symbol :> JStr(<<"B">>)),
      JObj(K_gene_symbol :> JStr(<<"A", "B">>)),
      JObj(K_gene_symbol :> JStr(<<"G", "E", "N", "E", "1">>)),
      JObj(K_gene_symbol :> JStr(<<"G", "E", "N", "E", "2">>) @@ K_biotype :> JStr(<<"p", "c">>)) }

CoreFields ==
    K_start :> JInt(12345) @@ K_end :> JInt(12346)
    @@ K_most_severe_consequence :> JStr(<<"m", "v">>)

OwnGeneSymbols ==
    { <<>>, K_gene_symbol :> JStr(<<>>), K_gene_symbol :> JStr(<<"C">>) }

Variants ==
    { own @@ K_transcript_consequences :> JList(tcs) :
          own \in OwnGeneSymbols, tcs \in SeqsUpTo(Consequences, MaxConsequences) }
    \cup { own @@ core : own \in OwnGeneSymbols, core \in {<<>>, CoreFields} }

\* The record of the repository's test (GENE1, GENE2, GENE1), with an id.
SampleVariant ==
    CoreFields @@ K_id :> JStr(<<"r", "s", "1">>)
    @@ K_transcript_consequences :>
           JList(<<JObj(K_gene_symbol :> JStr(<<"G", "E", "N", "E", "1">>)),
                   JObj(K_gene_symbol :> JStr(<<"G", "E", "N", "E", "2">>)),
                   JObj(K_gene_symbol :> JStr(<<"G", "E", "N", "E", "1">>))>>)

\* What extract_annotations may be handed when it is checked alone.
ApiResponses ==
    {JNone, EmptyDict, JList(<<>>)}
    \cup {JList(<<JObj(v)>>) : v \in Variants}
    \cup {JList(<<JObj(SampleVariant), JObj(CoreFields)>>)}

Json(value) == [parseable |-> TRUE, json |-> value]

\* What the server, or the transport, may answer to one request of a pipeline run.
Responses ==
    { Response(200, <<>>, Json(JList(<<JObj(SampleVariant)>>))),
      Response(200, <<>>, Json(JList(<<>>))),
      Response(200, <<>>, NoBody),
      Response(429, <<>>, NoBody),
      Response(429, "Retry-After" :> <<"7">>, NoBody),
      Response(429, "Retry-After" :> <<"W", "e", "d">>, NoBody),
      Response(400, <<>>, NoBody),
      Response(404, <<>>, NoBody),
      Response(403, <<>>, NoBody),
      Response(503, <<>>, NoBody),
      TransportFailure }

AdditionalFields == {<<>>, <<K_id>>, <<K_rsid>>}

\* args.additional_fields of a pipeline run.
PipelineFields == {<<>>, <<K_id>>}

NoCall == [kind |-> "none", value |-> JNone]

---------------------------------------------------------------------------
(* main *)

callVars == <<attempt, log, api_data>>
mainVars == <<rsids, i, annotations, success_count, error_count>>
species == "human"   \* args.species, left at its default
argVars == <<file, max_retries, additional_fields>>

InitWith(files, retries, fields) ==
    /\ file \in files
    /\ max_retries \in retries
    /\ additional_fields \in fields
    /\ pc = "start"
    /\ rsids = <<>>
    /\ rsid = <<>>
    /\ i = 0
    /\ annotations = <<>>
    /\ success_count = 0
    /\ error_count = 0
    /\ attempt = 0
    /\ log = <<>>
    /\ api_data = NoCall
    /\ report = <<>>

\* Lines 252-260: read_rsids, which ends the process when the file cannot be read.
main_read ==
    /\ pc = "start"
    /\ IF file.readable
       THEN /\ rsids' = read_rsids(file.lines)
            /\ pc' = "loop"
       ELSE /\ rsids' = rsids
            /\ pc' = "exit"
    /\ UNCHANGED <<argVars, callVars, rsid, i, annotations, success_count, error_count,
                   report>>

\* Lines 262-270: the next identifier; query_ensembl_api is entered.
main_call ==
    /\ pc = "loop"
    /\ i < Len(rsids)
    /\ rsid' = rsids[i + 1]
    /\ attempt' = 0
    /\ log' = <<>>
    /\ api_data' = NoCall
    /\ pc' = "query"
    /\ UNCHANGED <<argVars, mainVars, report>>

\* Lines 105-142: one iteration of the retry loop, for any answer to its request.
Attempt ==
    /\ pc = "query"
    /\ in_range(attempt, max_retries)
    /\ \E resp \in Responses :
          LET out == one_attempt(resp, attempt, max_retries)
              sent == Append(log, RequestEvent(Url(species, rsid), resp))
          IN CASE out.k = "continue" ->
                     /\ log' = Append(sent, SleepEvent(out.delay))
                     /\ attempt' = attempt + 1
                     /\ UNCHANGED <<api_data, pc>>
               [] out.k = "return" ->
                     /\ log' = sent
                     /\ api_data' = [kind |-> "return", value |-> out.value]
                     /\ pc' = "extract"
                     /\ UNCHANGED attempt
               [] out.k = "raise" ->
                     /\ log' = sent
                     /\ api_data' = [kind |-> "raise", value |-> JNone]
                     /\ pc' = "crashed"
                     /\ UNCHANGED attempt
    /\ UNCHANGED <<argVars, mainVars, rsid, report>>

\* The loop of line 105 ends without a return: the function returns None.
LoopExit ==
    /\ pc = "query"
    /\ ~in_range(attempt, max_retries)
    /\ api_data' = [kind |-> "return", value |-> JNone]
    /\ pc' = "extract"
    /\ UNCHANGED <<argVars, mainVars, rsid, attempt, log, report>>

\* Line 275: any(value for key, value in result.items() if key != "rsid")
is_success(result) == \E key \in DOMAIN result \ {K_rsid} : result[key] /= <<>>

\* Mutant of main_extract: a failed identifier is counted but gets no annotation.
main_extract_skips_failures ==
    /\ pc = "extract"
    /\ LET result == extract_annotations(api_data.value, additional_fields)
       IN IF is_success(result)
          THEN /\ annotations' = Append(annotations, result)
               /\ success_count' = success_count + 1
               /\ UNCHANGED error_count
          ELSE /\ error_count' = error_count + 1
               /\ UNCHANGED <<annotations, success_count>>
    /\ i' = i + 1
    /\ pc' = "loop"
    /\ attempt' = 0
    /\ log' = <<>>
    /\ UNCHANGED <<argVars, api_data, rsids, rsid, report>>

\* Lines 271-281: extract, append, count; then the next identifier.
main_extract ==
    /\ pc = "extract"
    /\ LET result == extract_annotations(api_data.value, additional_fields)
       IN /\ annotations' = Append(annotations, result)
          /\ IF is_success(result)
             THEN success_count' = success_count + 1 /\ UNCHANGED error_count
             ELSE error_count' = error_count + 1 /\ UNCHANGED success_count
    /\ i' = i + 1
    /\ pc' = "loop"
    /\ attempt' = 0
    /\ log' = <<>>
    /\ UNCHANGED <<argVars, api_data, rsids, rsid, report>>

\* Line 288: write_tsv, which ends the process when the file cannot be written.
main_write ==
    /\ pc = "loop"
    /\ i >= Len(rsids)
    /\ \E writable \in BOOLEAN :
          IF writable
          THEN report' = write_tsv(annotations, rsids) /\ pc' = "done"
          ELSE report' = report /\ pc' = "exit"
    /\ UNCHANGED <<argVars, callVars, mainVars, rsid>>

Init == InitWith(FilesOf(PipelineLines, MaxIds) \cup {Unreadable},
                 0..MaxRetriesBound, PipelineFields)

Next ==
    \/ main_read
    \/ main_call
    \/ Attempt
    \/ LoopExit
    \/ main_extract
    \/ main_write

Spec == Init /\ [][Next]_vars

---------------------------------------------------------------------------
(* Properties of query_ensembl_api and of main, under Spec *)

\* The responses of the requests the current call has issued, in order (main
\* drops the log when it takes the call's result).
Requests == SelectSeq(log, LAMBDA ev : ev.e = "request")
Resp(k) == Requests[k].resp

\* The call has just ended: it returned to main, which has not yet used the
\* result, or it raised.
CallOver == pc \in {"extract", "crashed"}

\* The spec's empty or absent result: {} or None.
IsEmptyResult(v) == v = EmptyDict \/ v = JNone

IsSuccess(resp) == ~resp.raised /\ resp.status = 200 /\ resp.body.parseable
IsTransportOr5xx(resp) == resp.raised \/ resp.status >= 500
IsRateLimited(resp) == ~resp.raised /\ resp.status = 429
IsClientError(resp) == ~resp.raised /\ resp.status \in {400, 404}

\* The log of a call whose first n requests were each followed by a wait of
\* retry_delay and by the next request: request, sleep, ..., request.
Alternates(n) ==
    /\ Len(log) >= 2 * n - 1
    /\ \A k \in 1..(2 * n - 1) :
          IF k % 2 = 1 THEN log[k].e = "request"
          ELSE log[k] = SleepEvent(retry_delay)

\* C1: the lookup never fails: a call that is over has returned, never raised, and
\* what it returned is the parsed body of its last response or the empty result.
C1_LookupNeverFails ==
    CallOver =>
        /\ api_data.kind = "return"
        /\ \/ IsEmptyResult(api_data.value)
           \/ /\ Requests /= <<>>
              /\ IsSuccess(Resp(Len(Requests)))
              /\ api_data.value = Resp(Len(Requests)).body.json

\* C2: a call issues at most max_retries requests and is over once it has issued
\* that many (with max_retries = 0 it issues none and returns).
C2_AtMostMaxRetriesRequests ==
    /\ Len(Requests) <= max_retries
    /\ attempt <= max_retries
    /\ pc = "query" => Len(Requests) = attempt
    /\ (pc = "query" /\ max_retries > 0) => Len(Requests) < max_retries

\* A call that used up all of its 3 attempts on a 429, a 5xx and a transport failure.
C2_Witness ==
    /\ CallOver
    /\ max_retries = 3
    /\ Len(Requests) = 3
    /\ IsRateLimited(Resp(1))
    /\ ~Resp(2).raised /\ Resp(2).status >= 500
    /\ Resp(3).raised

\* C3: a 400 or a 404 ends the call at once with the empty result: it is the last
\* entry of the log (no delay, no further request); when it answers the first
\* request, that is the only request made.
C3_ClientErrorReturnsAtOnce ==
    \A k \in 1..Len(log) :
        (log[k].e = "request" /\ IsClientError(log[k].resp)) =>
            /\ k = Len(log)
            /\ api_data = [kind |-> "return", value |-> EmptyDict]
            /\ pc /= "query"
            /\ (k = 1 => Len(Requests) = 1)

\* A 404 on the first of three attempts.
C3_Witness ==
    /\ Len(log) = 1
    /\ log[1].e = "request"
    /\ ~log[1].resp.raised /\ log[1].resp.status = 404
    /\ max_retries = 3
    /\ api_data.kind = "return"

\* C4: while every request but the last ended in a transport failure or a 5xx,
\* each of those was followed by a wait of retry_delay and the next request; a
\* success on request k then returns its parsed body with exactly k requests made;
\* a failure on request k < max_retries is waited on and retried; a failure on
\* request max_retries returns the empty result.
C4_RetryThenSuccessOrEmpty ==
    LET k == Len(Requests)
    IN (k >= 1 /\ \A j \in 1..(k - 1) : IsTransportOr5xx(Resp(j))) =>
          /\ k <= max_retries
          /\ Alternates(k)
          /\ IsSuccess(Resp(k)) =>
                /\ Len(log) = 2 * k - 1
                /\ api_data = [kind |-> "return", value |-> Resp(k).body.json]
                /\ ~IsEmptyResult(api_data.value) \/ Resp(k).body.json = JList(<<>>)
          /\ (IsTransportOr5xx(Resp(k)) /\ k < max_retries) =>
                /\ log = Append(SubSeq(log, 1, 2 * k - 1), SleepEvent(retry_delay))
                /\ pc = "query" /\ ~CallOver
          /\ (IsTransportOr5xx(Resp(k)) /\ k = max_retries) =>
                /\ Len(log) = 2 * k - 1
                /\ api_data = [kind |-> "return", value |-> EmptyDict]

\* Transport failure, then a 5xx, then success on the third of three attempts.
C4_Witness ==
    /\ max_retries = 3
    /\ Len(Requests) = 3
    /\ Resp(1).raised
    /\ ~Resp(2).raised /\ Resp(2).status >= 500
    /\ IsSuccess(Resp(3))
    /\ api_data.kind = "return"
    /\ truthy(api_data.value)

\* C5: a 429 on a non-final attempt is followed by a wait of its Retry-After value
\* (of retry_delay without the header) and then the call goes on to the next
\* request; a 429 on the final attempt is followed by no wait and no request, and
\* the call returns what the generic status check yields.
C5_RateLimitWaitsThenRetries ==
    \A k \in 1..Len(log) :
        (log[k].e = "request" /\ IsRateLimited(log[k].resp)) =>
            LET n == Len(SelectSeq(SubSeq(log, 1, k), LAMBDA ev : ev.e = "request"))
                headers == log[k].resp.headers
            IN IF n < max_retries
               THEN /\ Len(log) > k
                    /\ log[k + 1].e = "sleep"
                    /\ IF "Retry-After" \in DOMAIN headers
                       THEN py_str(JInt(log[k + 1].delay)) = strip(headers["Retry-After"])
                       ELSE log[k + 1].delay = retry_delay
                    /\ \/ Len(log) > k + 1 /\ log[k + 2].e = "request"
                       \/ Len(log) = k + 1 /\ pc = "query"
               ELSE /\ Len(log) = k
                    /\ api_data = [kind |-> "return", value |-> EmptyDict]

\* Every field of the annotation is the empty string.
AllEmpty(annotation) == \A key \in DOMAIN annotation : annotation[key] = <<>>

\* Every request of the call got a failure: a transport failure or a status >= 400.
LookupFailed ==
    /\ Requests /= <<>>
    /\ \A k \in 1..Len(Requests) : Resp(k).raised \/ Resp(k).status >= 400

\* C6: identifiers are resolved one after another in input order; after i of them
\* the list holds i annotations, each appended from the lookup just made for the
\* identifier at that position; one per identifier when the report is written.
C6_AnnotationsInOrder ==
    /\ Len(annotations) = i
    /\ i <= Len(rsids)
    /\ pc \in {"query", "extract"} =>
          /\ i < Len(rsids)
          /\ rsid = rsids[i + 1]
          /\ \A k \in 1..Len(Requests) : Requests[k].url = Url(species, rsids[i + 1])
    /\ (pc \in {"loop", "done"} /\ i >= 1) =>
          /\ rsid = rsids[i]
          /\ api_data.kind = "return"
          /\ annotations[i] = extract_annotations(api_data.value, additional_fields)
    /\ pc = "done" => Len(annotations) = Len(rsids)
    /\ success_count + error_count = i

\* Two identifiers resolved to different annotations, the report written.
C6_Witness ==
    /\ pc = "done"
    /\ Len(rsids) = 2
    /\ rsids[1] /= rsids[2]
    /\ AllEmpty(annotations[1])
    /\ ~AllEmpty(annotations[2])

\* C7: a failed lookup never aborts the run; its identifier gets an annotation with
\* every field empty, counted as a failure and not as a success; the remaining
\* identifiers are processed and the report has a row for each.
C7_FailureDegradesNeverAborts ==
    /\ LookupFailed =>
          /\ pc /= "crashed"
          /\ CallOver => api_data = [kind |-> "return", value |-> EmptyDict]
    /\ (pc \in {"loop", "done"} /\ i >= 1 /\ api_data.value = EmptyDict) =>
          AllEmpty(annotations[i])
    /\ error_count = Cardinality({k \in 1..Len(annotations) : AllEmpty(annotations[k])})
    /\ success_count = Cardinality({k \in 1..Len(annotations) : ~AllEmpty(annotations[k])})
    /\ pc = "done" => Len(DictReader(report)) = Len(rsids)

---------------------------------------------------------------------------
(* read_rsids alone: any file of up to MaxLines lines *)

InitRead == InitWith(FilesOf(ReadLines, MaxLines) \cup {Unreadable}, {3}, {<<>>})

NextRead == main_read

SpecRead == InitRead /\ [][NextRead]_vars

\* rs, then one or more of the decimal digits 0-9, and nothing else.
Conforms(t) ==
    /\ Len(t) >= 3
    /\ t[1] = "r" /\ t[2] = "s"
    /\ \A k \in 3..Len(t) : t[k] \in AsciiDigits

\* C10: read_rsids returns exactly the trimmed lines that conform, in file order,
\* duplicates kept.
C10_ExactlyConformingLines ==
    pc = "loop" =>
        rsids = SelectSeq([k \in 1..Len(file.lines) |-> strip(file.lines[k])], Conforms)

---------------------------------------------------------------------------
(* extract_annotations alone: any response of ApiResponses *)

InitExtract ==
    /\ file = [readable |-> TRUE, lines |-> <<<<"r", "s", "1", "\n">>>>]
    /\ max_retries = 3
    /\ additional_fields \in AdditionalFields \cup {<<K_biotype>>}
    /\ pc = "extract"
    /\ rsids = <<<<"r", "s", "1">>>>
    /\ rsid = <<"r", "s", "1">>
    /\ i = 0
    /\ annotations = <<>>
    /\ success_count = 0
    /\ error_count = 0
    /\ attempt = 0
    /\ log = <<>>
    /\ api_data \in {[kind |-> "return", value |-> v] : v \in ApiResponses}
    /\ report = <<>>

NextExtract == main_extract

SpecExtract == InitExtract /\ [][NextExtract]_vars

\* a < b lexicographically: at the first place they differ, or a is a proper prefix.
LexLess(a, b) ==
    LET differ == {k \in 1..Min(Len(a), Len(b)) : a[k] /= b[k]}
    IN IF differ = {} THEN Len(a) < Len(b)
       ELSE LET first == CHOOSE k \in differ : \A j \in differ : k <= j
            IN ord(a[first]) < ord(b[first])

\* text is the members of G, each once, in increasing order, commas between.
IsSortedCommaList(text, G) ==
    \E order \in [1..Cardinality(G) -> G] :
        /\ \A j \in 1..(Cardinality(G) - 1) : LexLess(order[j], order[j + 1])
        /\ LET at[j \in 0..Cardinality(G)] ==
                   IF j = 0 THEN <<>>
                   ELSE at[j - 1] \o (IF j = 1 THEN <<>> ELSE <<",">>) \o order[j]
           IN text = at[Cardinality(G)]

\* The first variant record of the response handed to extract_annotations.
FirstVariant == api_data.value.items[1].o

TranscriptConsequences ==
    IF K_transcript_consequences \in DOMAIN FirstVariant
    THEN FirstVariant[K_transcript_consequences].items
    ELSE <<>>

\* The gene_symbol values found on a list of records.
SymbolsOn(records) ==
    {records[k].o[K_gene_symbol].s :
        k \in {j \in 1..Len(records) :
                  /\ K_gene_symbol \in DOMAIN records[j].o
                  /\ records[j].o[K_gene_symbol].s /= <<>>}}

Extracted ==
    /\ pc = "loop"
    /\ i = 1
    /\ api_data.value.t = "list"
    /\ api_data.value.items /= <<>>

\* C9: gene_symbols is the distinct gene_symbol values of the first variant's
\* transcript consequences, sorted and comma-joined, whatever the order of the
\* consequences; with none, the variant's own gene_symbol if present, else "".
C9_GeneSymbolsSortedDistinct ==
    Extracted =>
        LET found == SymbolsOn(TranscriptConsequences)
            own == SymbolsOn(<<JObj(FirstVariant)>>)
            tcs == TranscriptConsequences
        IN /\ IsSortedCommaList(annotations[1][K_gene_symbols],
                                IF found /= {} THEN found ELSE own)
           /\ \A p \in Permutations(1..Len(tcs)) :
                 extract_annotations(
                     JList(<<JObj(K_transcript_consequences :>
                                      JList([k \in 1..Len(tcs) |-> tcs[p[k]]])
                                  @@ FirstVariant)>>),
                     additional_fields)[K_gene_symbols]
                 = annotations[1][K_gene_symbols]

\* GENE2, GENE1, GENE1 gives "GENE1,GENE2".
C9_Witness ==
    /\ Extracted
    /\ Len(TranscriptConsequences) = 3
    /\ [k \in 1..3 |-> get(TranscriptConsequences[k].o, K_gene_symbol, JNone)]
           = <<JStr(<<"G", "E", "N", "E", "2">>), JStr(<<"G", "E", "N", "E", "1">>),
               JStr(<<"G", "E", "N", "E", "1">>)>>
    /\ annotations[1][K_gene_symbols]
           = <<"G", "E", "N", "E", "1", ",", "G", "E", "N", "E", "2">>

---------------------------------------------------------------------------
(* write_tsv alone: any equal-length lists of identifiers and annotations *)

TsvValues ==
    { <<>>, <<"m", "v">>, <<"a", "\t", "b">>, <<"\"">>, <<"a", "\n">>, <<"\r">> }

\* Annotations as extract_annotations shapes them for the requested fields.
TsvAnnotations(fields) ==
    { [k \in StandardKeys \cup Range(fields) |->
          IF k = K_most_severe_consequence THEN v
          ELSE IF k \in StandardKeys THEN <<>>
          ELSE x] :
      v \in TsvValues, x \in {<<>>, <<"q">>} }

TsvIds == {<<"r", "s", "1">>, <<"r", "s", "2", "2">>}

InitTsv ==
    /\ file = [readable |-> TRUE, lines |-> <<>>]
    /\ max_retries = 3
    /\ additional_fields \in AdditionalFields
    /\ pc = "loop"
    /\ rsids \in SeqsUpTo(TsvIds, MaxRows)
    /\ rsid = <<>>
    /\ i = Len(rsids)
    /\ annotations \in {a \in SeqsUpTo(TsvAnnotations(additional_fields), MaxRows) :
                           Len(a) = Len(rsids)}
    /\ success_count = Cardinality({k \in 1..Len(annotations) : is_success(annotations[k])})
    /\ error_count = Len(annotations) - success_count
    /\ attempt = 0
    /\ log = <<>>
    /\ api_data = NoCall
    /\ report = <<>>

NextTsv == main_write

SpecTsv == InitTsv /\ [][NextTsv]_vars

\* C8: reading the written report back gives one row per (identifier, annotation)
\* pair, in input order: the identifier column is the N-th identifier, every other
\* column the N-th annotation's value.
C8_RoundTrip ==
    pc = "done" =>
        LET rows == DictReader(report)
        IN /\ Len(rows) = Len(rsids)
           /\ \A n \in 1..Len(rows) :
                 /\ rows[n][K_rsid] = rsids[n]
                 /\ \A key \in DOMAIN annotations[n] \ {K_rsid} :
                       rows[n][key] = annotations[n][key]

===========================================================================
